---- MODULE Spec2Model ----
(***************************************************************************)
(* Model of the rk61-rgb-sdk crate: the lighting configuration aggregate   *)
(* (datatypes.rs), its encoder into 26 feature-report blocks of 65 bytes,  *)
(* and the transmission loop of lib.rs.                                    *)
(***************************************************************************)
EXTENDS Integers, Sequences, FiniteSets, TLC

VARIABLES
    pc,          \* position of the calling program
    call,        \* the constructor call the program made last, with its arguments
    lum,         \* the LightingUpdateMessage in hand, or NoLum
    data,        \* the encoder's flat logical buffer (local `data`) at its return
    blocks,      \* the encoder's return value (`message_blocks`)
    block_num,   \* loop index of send_lighting_update_message
    device_log,  \* transport calls that reached the device, in order
    result       \* what send_lighting_update_message gave its caller

vars == <<pc, call, lum, data, blocks, block_num, device_log, result>>

----------------------------------------------------------------------------
(* Bounds of the model                                                     *)

\* filler patterns 0..MaxFill are the outcomes of the random generator tried
MaxFill == 1
\* colourings 1..MaxColouring are the colourings of a key map tried
MaxColouring == 1

----------------------------------------------------------------------------
(* Enumerations (datatypes.rs)                                             *)

MODES == << "NoBacklight", "Static", "SingleOn", "SingleOff", "Glittering",
            "Falling", "Colorful", "Breath", "Spectrum", "Outward",
            "Scrolling", "Rolling", "Rotating", "Explode", "Launch",
            "Ripples", "Flowing", "Pulsating", "Tilt", "Shuttle",
            "UserDefined" >>

Mode == { MODES[i] : i \in 1..Len(MODES) }

\* `mode as u8`
ModeCode(m) ==
    CASE m = "NoBacklight" -> 0
      [] m = "Static"      -> 1
      [] m = "SingleOn"    -> 2
      [] m = "SingleOff"   -> 3
      [] m = "Glittering"  -> 4
      [] m = "Falling"     -> 5
      [] m = "Colorful"    -> 6
      [] m = "Breath"      -> 7
      [] m = "Spectrum"    -> 8
      [] m = "Outward"     -> 9
      [] m = "Scrolling"   -> 10
      [] m = "Rolling"     -> 11
      [] m = "Rotating"    -> 12
      [] m = "Explode"     -> 13
      [] m = "Launch"      -> 14
      [] m = "Ripples"     -> 15
      [] m = "Flowing"     -> 16
      [] m = "Pulsating"   -> 17
      [] m = "Tilt"        -> 18
      [] m = "Shuttle"     -> 19
      [] m = "UserDefined" -> 128

None == "None"

\* FromPrimitive::from_usize for Mode: the variant with that discriminant
ModeFromUsize(n) ==
    IF \E m \in Mode : ModeCode(m) = n
    THEN CHOOSE m \in Mode : ModeCode(m) = n
    ELSE None

Direction == { "Right", "Left", "Up", "Down" }

\* `direction as u8`
DirectionCode(d) ==
    CASE d = "Right" -> 0
      [] d = "Left"  -> 1
      [] d = "Up"    -> 2
      [] d = "Down"  -> 3

\* enum Key: <<variant, discriminant>>, in declaration order
KeyTable == <<
    <<"Esc", 76>>, <<"Numrow1", 80>>, <<"Numrow2", 84>>, <<"Numrow3", 88>>,
    <<"Numrow4", 92>>, <<"Numrow5", 96>>, <<"Numrow6", 100>>,
    <<"Numrow7", 104>>, <<"Numrow8", 108>>, <<"Numrow9", 112>>,
    <<"Numrow0", 116>>, <<"Minus", 120>>, <<"Equals", 124>>,
    <<"Tab", 148>>, <<"Q", 152>>, <<"W", 156>>, <<"E", 160>>, <<"R", 164>>,
    <<"T", 168>>, <<"Y", 172>>, <<"U", 176>>, <<"I", 180>>, <<"O", 184>>,
    <<"P", 188>>,
    <<"LBracket", 192>>, <<"RBracket", 196>>, <<"CapsLock", 220>>,
    <<"A", 224>>, <<"S", 228>>, <<"D", 232>>, <<"F", 236>>, <<"G", 240>>,
    <<"H", 244>>, <<"J", 248>>, <<"K", 252>>,
    <<"L", 256>>, <<"Semicolon", 260>>, <<"Quote", 264>>,
    <<"Backslash", 268>>, <<"LShift", 292>>, <<"Z", 296>>, <<"X", 300>>,
    <<"C", 304>>, <<"V", 308>>, <<"B", 312>>, <<"N", 316>>,
    <<"M", 320>>, <<"Comma", 324>>, <<"Fullstop", 328>>, <<"Slash", 332>>,
    <<"RShift", 336>>, <<"Enter", 340>>, <<"LCtrl", 364>>, <<"LWin", 368>>,
    <<"LAlt", 372>>, <<"Space", 376>>, <<"RAlt", 380>>,
    <<"Menu", 384>>, <<"RCtrl", 388>>, <<"Fn", 392>>, <<"Backspace", 412>> >>

Key == { KeyTable[i][1] : i \in 1..Len(KeyTable) }

\* `key as usize`
KeyCodeOf ==
    [k \in Key |-> KeyTable[CHOOSE i \in 1..Len(KeyTable) : KeyTable[i][1] = k][2]]
KeyCode(k) == KeyCodeOf[k]

\* the discriminants in use, and the variant each one names
KeyCodes == { KeyTable[i][2] : i \in 1..Len(KeyTable) }
KeyOfCode ==
    [c \in KeyCodes |-> KeyTable[CHOOSE i \in 1..Len(KeyTable) : KeyTable[i][2] = c][1]]

\* FromPrimitive::from_usize for Key: Some(variant) or None
KeyFromUsize(n) == IF n \in KeyCodes THEN KeyOfCode[n] ELSE None

----------------------------------------------------------------------------
(* RGB and ModePreset (datatypes.rs)                                       *)

rgb(red, green, blue) == [red |-> red, green |-> green, blue |-> blue]

\* the value a failed assert! leaves in place of a preset: the thread panics
Panic == [panicked |-> TRUE]

\* mode_preset with the lower bound of brightness left out of its assertion
mode_preset_NoLowerBound(mode, color, full_color, brightness, speed, direction) ==
    IF ~(brightness <= 16) THEN Panic
    ELSE IF ~(speed <= 16 /\ speed >= 1) THEN Panic
    ELSE [mode |-> mode, color |-> color, full_color |-> full_color,
          brightness |-> brightness, speed |-> speed, direction |-> direction]

mode_preset(mode, color, full_color, brightness, speed, direction) ==
    IF ~(brightness <= 16 /\ brightness >= 1) THEN Panic
    ELSE IF ~(speed <= 16 /\ speed >= 1) THEN Panic
    ELSE [mode |-> mode, color |-> color, full_color |-> full_color,
          brightness |-> brightness, speed |-> speed, direction |-> direction]

default_for(mode) ==
    mode_preset(mode, rgb(255, 255, 255), TRUE, 16, 12,
                IF mode = "Scrolling" THEN "Down" ELSE "Right")

\* `bool as u8`
BoolCode(b) == IF b THEN 1 ELSE 0

\* the encoding with brightness and speed in each other's place
ModePresetInto_Swapped(p) ==
    << ModeCode(p.mode), p.color.red, p.color.green, p.color.blue,
       0, 0, 0, 0,
       BoolCode(p.full_color), p.speed, p.brightness, DirectionCode(p.direction),
       0, 0, 170, 85 >>

\* impl Into<[u8; 16]> for ModePreset
ModePresetInto(p) ==
    << ModeCode(p.mode), p.color.red, p.color.green, p.color.blue,
       0, 0, 0, 0,
       BoolCode(p.full_color), p.brightness, p.speed, DirectionCode(p.direction),
       0, 0, 170, 85 >>

\* for m in &MODES[1..] { h.insert(m, default_for(m)) }
mode_presets_default_hashmap ==
    [m \in { MODES[i] : i \in 2..Len(MODES) } |-> default_for(m)]

----------------------------------------------------------------------------
(* LightingUpdateMessage constructors (datatypes.rs)                       *)

NoLum == [none |-> TRUE]

\* HashMap::new()
EmptyMap == [k \in {} |-> rgb(0, 0, 0)]

\* set_active_mode without the overwrite of the active mode's entry
set_active_mode_NoOverwrite(active_mode) ==
    [mode_presets |-> mode_presets_default_hashmap,
     key_colors |-> EmptyMap,
     active_mode |-> active_mode]

set_active_mode(active_mode) ==
    LET mode_presets == mode_presets_default_hashmap
    IN  [mode_presets |->
            IF active_mode.mode \in DOMAIN mode_presets
            THEN [mode_presets EXCEPT ![active_mode.mode] = active_mode]
            ELSE mode_presets,
         key_colors |-> EmptyMap,
         active_mode |-> active_mode]

set_backlight_off ==
    LET am == mode_preset("NoBacklight", rgb(0, 0, 0), FALSE, 1, 1, "Right")
    IN  IF am = Panic THEN Panic
        ELSE [mode_presets |-> mode_presets_default_hashmap,
              key_colors |-> EmptyMap,
              active_mode |-> am]

\* set_user_defined that starts from an empty key map, as the other two do
set_user_defined_EmptyMap(brightness, hmap) ==
    LET am == mode_preset("UserDefined", rgb(255, 255, 255), FALSE,
                          brightness, 1, "Right")
    IN  IF am = Panic THEN Panic
        ELSE [mode_presets |-> mode_presets_default_hashmap,
              key_colors |-> EmptyMap,
              active_mode |-> am]

set_user_defined(brightness, hmap) ==
    LET am == mode_preset("UserDefined", rgb(255, 255, 255), FALSE,
                          brightness, 1, "Right")
    IN  IF am = Panic THEN Panic
        ELSE [mode_presets |-> mode_presets_default_hashmap,
              key_colors |-> hmap,
              active_mode |-> am]

----------------------------------------------------------------------------
(* construct_feature_report_data_blocks (datatypes.rs)                     *)

DataLen == 26 * 64

\* The Vec<u8> `data` is held as a sequence: data[i] of the source, i counted
\* from 0, is element i + 1 of the sequence.
At(d, i) == d[i + 1]

\* vec![0; 26 * 64]
ZeroData == [i \in 1..DataLen |-> 0] \o <<>>

\* data[start..start + len].copy_from_slice(bytes)
CopyFromSlice(d, start, bytes) ==
    SubSeq(d, 1, start) \o bytes \o SubSeq(d, start + Len(bytes) + 1, Len(d))

\* the byte sequences rng.gen() may hand out for block 3
Fillers == { [i \in 1..64 |-> (s * (7 * i + 1)) % 256] : s \in 0..MaxFill }

\* for i in 0x00..0x40 { data[0x80 + i] = rng.gen(); }
FillRandom(d, fill) == CopyFromSlice(d, 128, fill)

\* the preset loop with an inclusive range, `0x01..=0x13`
PresetLoopTo_Inclusive == 19 + 1

\* first and one-past-last mode number of `for m in 0x01..0x13`
PresetLoopFrom == 1
PresetLoopTo == 19

\* the record offset computed from m instead of idx = m - 1
PresetOffset_FromM(m) == 320 + m * 16

\* where the record of the mode numbered m is copied to
PresetOffset(m) == 320 + (m - 1) * 16

\* for m in 0x01..0x13 { ... copy_from_slice(&mp_bytes) }
RECURSIVE PresetLoop(_, _, _)
PresetLoop(self, d, m) ==
    IF m >= PresetLoopTo THEN d
    ELSE LET mode == ModeFromUsize(m)
             mp_bytes == ModePresetInto(self.mode_presets[mode])
         IN  PresetLoop(self, CopyFromSlice(d, PresetOffset(m), mp_bytes), m + 1)

\* bounds and stride of `((13 * 0x40)..(22 * 0x40)).step_by(4)`
KeyLoopFrom == 13 * 64
KeyLoopTo == 22 * 64
KeyLoopStep == 4

\* the key number taken as the slot's ordinal instead of its byte offset
KeyNum_SlotOrdinal(idx) == (idx - 13 * 64) \div 4

\* let key_num = idx - 13 * 0x40
KeyNum(idx) == idx - 13 * 64

\* self.key_colors.get(&key).unwrap_or(&rgb(0, 0, 0))
KeyColor(self, key) ==
    IF key \in DOMAIN self.key_colors THEN self.key_colors[key] ELSE rgb(0, 0, 0)

\* the loop variable takes the value idx
KeyLoopIdx(idx) ==
    idx >= KeyLoopFrom /\ idx < KeyLoopTo /\ (idx - KeyLoopFrom) % KeyLoopStep = 0

\* the bytes the loop body stores at data[idx], data[idx + 1], ... for index idx
KeySlot(self, idx) ==
    LET key == KeyFromUsize(KeyNum(idx))
    IN  IF key # None
        THEN LET key_color == KeyColor(self, key)
             IN  <<128, key_color.red, key_color.green, key_color.blue>>
        ELSE <<128>>

\* the whole per-key loop: data[i] holds what the last pass that stored to it
\* left there, and its old value if no pass did
KeyLoop(self, d) ==
    [n \in 1..Len(d) |->
        LET i == n - 1
            W == { idx \in (i - 3)..i :
                      KeyLoopIdx(idx) /\ i - idx < Len(KeySlot(self, idx)) }
        IN  IF W = {} THEN At(d, i)
            ELSE LET last == CHOOSE idx \in W : \A o \in W : o <= idx
                 IN  KeySlot(self, last)[i - last + 1]] \o <<>>

\* where the active mode's record is copied to: data[0x580..0x590]
ActiveOffset == 1408

\* the flat buffer `data` as it stands before chunking
BuildData(self, fill) ==
    LET d1 == CopyFromSlice(ZeroData, 0, <<4, 24>>)
        d2 == CopyFromSlice(d1, 64, <<4, 171>>)
        d3 == FillRandom(d2, fill)
        d4 == CopyFromSlice(d3, 192, <<4, 2>>)
        d5 == CopyFromSlice(d4, 256, <<4, 19, 0, 0, 0, 0, 0, 0, 18>>)
        d6 == PresetLoop(self, d5, PresetLoopFrom)
        d7 == CopyFromSlice(d6, 624, ModePresetInto(self.mode_presets["UserDefined"]))
        d8 == KeyLoop(self, d7)
        d9 == CopyFromSlice(d8, ActiveOffset, ModePresetInto(self.active_mode))
        d10 == CopyFromSlice(d9, 1472, <<4, 2>>)
        d11 == CopyFromSlice(d10, 1536, <<4, 240>>)
    IN  CopyFromSlice(d11, 1600, <<4, 24>>)

\* chunking that copies the page to block[0..64], leaving no report-id byte
Chunk_NoReportId(d) ==
    [b \in 0..25 |-> [j \in 0..64 |-> IF j = 64 THEN 0 ELSE At(d, 64 * b + j)]]

\* block[1..].copy_from_slice(&data[idx..(idx + 64)]) for each 64-byte page
Chunk(d) ==
    [b \in 0..25 |-> [j \in 0..64 |-> IF j = 0 THEN 0 ELSE At(d, 64 * b + (j - 1))]]

----------------------------------------------------------------------------
(* Inputs a caller may pass                                                *)

Palette == { rgb(0, 0, 0), rgb(25, 255, 50) }

\* u8 arguments on and around the edges of the accepted range
BrightnessInputs == { 0, 1, 2, 16, 17 }
SpeedInputs == { 0, 1, 6, 17 }

\* argument tuples of mode_preset
PresetInputs ==
    Mode \X Palette \X BOOLEAN \X BrightnessInputs \X SpeedInputs \X Direction

\* a colour for key k that differs from key to key
Colouring(c, k) ==
    rgb((KeyCode(k) * c) % 256, (KeyCode(k) \div 4 + c) % 256, 256 - c)

\* single keys, and the first n keys of the enum for every n
KeySets ==
    { {k} : k \in Key } \cup
    { { KeyTable[i][1] : i \in 1..n } : n \in 0..Len(KeyTable) }

KeyMaps == { [k \in S |-> Colouring(c, k)] : S \in KeySets, c \in 1..MaxColouring }

UserDefinedInputs == BrightnessInputs \X KeyMaps

\* the calls tests.rs makes: lum_rolling, lum_emerald, lum_ripples; lum1, lum2
TestPresetInputs ==
    { <<"Rolling", rgb(0, 0, 0), TRUE, 2, 6, "Left">>,
      <<"Static", rgb(25, 255, 50), FALSE, 16, 1, "Right">>,
      <<"Ripples", rgb(25, 255, 50), TRUE, 16, 13, "Right">> }

TestUserDefinedInputs ==
    { <<16, [k \in {"Q", "W", "E"} |-> rgb(255, 128, 15)]>>,
      <<16, [k \in {"A", "S", "D"} |-> rgb(15, 240, 255)]>> }

----------------------------------------------------------------------------
(* The calling program                                                     *)

NoCall == [fn |-> "none"]

Init ==
    /\ pc = "start"
    /\ call = NoCall
    /\ lum = NoLum
    /\ data = <<>>
    /\ blocks = <<>>
    /\ block_num = 0
    /\ device_log = <<>>
    /\ result = "none"

\* the constructor returned v, or panicked on the way
Constructed(v) ==
    /\ IF v = Panic
       THEN pc' = "panicked" /\ lum' = lum
       ELSE pc' = "built" /\ lum' = v
    /\ UNCHANGED <<data, blocks, block_num, device_log, result>>

\* LightingUpdateMessage::set_active_mode(mode_preset(..))
CallSetActiveMode(inputs) ==
    /\ pc = "start"
    /\ \E a \in inputs :
        LET p == mode_preset(a[1], a[2], a[3], a[4], a[5], a[6])
        IN  /\ call' = [fn |-> "set_active_mode", mode |-> a[1], color |-> a[2],
                        full_color |-> a[3], brightness |-> a[4],
                        speed |-> a[5], direction |-> a[6]]
            /\ Constructed(IF p = Panic THEN Panic ELSE set_active_mode(p))

\* LightingUpdateMessage::set_backlight_off()
CallSetBacklightOff ==
    /\ pc = "start"
    /\ call' = [fn |-> "set_backlight_off"]
    /\ Constructed(set_backlight_off)

\* LightingUpdateMessage::set_user_defined(brightness, hmap)
CallSetUserDefined(inputs) ==
    /\ pc = "start"
    /\ \E a \in inputs :
        /\ call' = [fn |-> "set_user_defined", brightness |-> a[1], hmap |-> a[2]]
        /\ Constructed(set_user_defined(a[1], a[2]))

\* lum.construct_feature_report_data_blocks()
Encode ==
    /\ pc = "built"
    /\ \E fill \in Fillers :
        /\ data' = BuildData(lum, fill)
        /\ blocks' = Chunk(data')
    /\ pc' = "encoded"
    /\ UNCHANGED <<call, lum, block_num, device_log, result>>

\* the aggregate goes out of scope
Drop ==
    /\ pc \in {"built", "encoded", "returned"}
    /\ pc' = "start"
    /\ call' = NoCall
    /\ lum' = NoLum
    /\ data' = <<>>
    /\ blocks' = <<>>
    /\ block_num' = 0
    /\ device_log' = <<>>
    /\ result' = "none"

----------------------------------------------------------------------------
(* send_lighting_update_message (lib.rs)                                   *)

\* the read-back arm with block 2 in place of block 3
ReadBackBlocks_Block2 == { 0, 1, 2, 4, 23, 25 }

\* match block_num { 0 | 1 | 3 | 4 | 23 | 25 => .. }
ReadBackBlocks == { 0, 1, 3, 4, 23, 25 }

\* the position after the body of the loop has run for block_num
AfterBlock ==
    /\ block_num' = block_num + 1
    /\ pc' = "write"

\* device.set_blocking_mode(true); let data_blocks = lum.construct_..()
SendBegin ==
    /\ pc = "built"
    /\ \E fill \in Fillers :
        /\ data' = BuildData(lum, fill)
        /\ blocks' = Chunk(data')
    /\ block_num' = 0
    /\ device_log' = <<>>
    /\ pc' = "write"
    /\ UNCHANGED <<call, lum, result>>

\* device.send_feature_report(block)? returned Ok
WriteOk ==
    /\ pc = "write"
    /\ block_num \in DOMAIN blocks
    /\ device_log' = Append(device_log,
            [op |-> "send_feature_report", block |-> block_num, ok |-> TRUE])
    /\ IF block_num \in ReadBackBlocks
       THEN pc' = "read" /\ block_num' = block_num
       ELSE AfterBlock
    /\ UNCHANGED <<call, lum, data, blocks, result>>

\* device.send_feature_report(block)? returned Err: `?` returns it to the caller
WriteErr ==
    /\ pc = "write"
    /\ block_num \in DOMAIN blocks
    /\ device_log' = Append(device_log,
            [op |-> "send_feature_report", block |-> block_num, ok |-> FALSE])
    /\ result' = "Err"
    /\ pc' = "returned"
    /\ UNCHANGED <<call, lum, data, blocks, block_num>>

\* device.get_feature_report(&mut freport).unwrap() on Ok
ReadOk ==
    /\ pc = "read"
    /\ device_log' = Append(device_log,
            [op |-> "get_feature_report", block |-> block_num, ok |-> TRUE])
    /\ AfterBlock
    /\ UNCHANGED <<call, lum, data, blocks, result>>

\* device.get_feature_report(&mut freport).unwrap() on Err: unwrap panics
ReadErr ==
    /\ pc = "read"
    /\ device_log' = Append(device_log,
            [op |-> "get_feature_report", block |-> block_num, ok |-> FALSE])
    /\ pc' = "panicked"
    /\ UNCHANGED <<call, lum, data, blocks, block_num, result>>

\* the loop is over: Ok(())
SendReturn ==
    /\ pc = "write"
    /\ block_num \notin DOMAIN blocks
    /\ result' = "Ok"
    /\ pc' = "returned"
    /\ UNCHANGED <<call, lum, data, blocks, block_num, device_log>>

----------------------------------------------------------------------------
(* Specifications                                                          *)

\* the encoder, over every aggregate the constructors give on the inputs above
Next ==
    \/ CallSetActiveMode(PresetInputs)
    \/ CallSetBacklightOff
    \/ CallSetUserDefined(UserDefinedInputs)
    \/ Encode
    \/ Drop

Spec == Init /\ [][Next]_vars

\* the transmission, of the aggregates tests.rs builds
NextSend ==
    \/ CallSetActiveMode(TestPresetInputs)
    \/ CallSetBacklightOff
    \/ CallSetUserDefined(TestUserDefinedInputs)
    \/ SendBegin
    \/ WriteOk
    \/ WriteErr
    \/ ReadOk
    \/ ReadErr
    \/ SendReturn
    \/ Drop

SpecSend == Init /\ [][NextSend]_vars

----------------------------------------------------------------------------
(* Vocabulary of the properties                                            *)

\* an aggregate is in hand
HasLum == pc \in {"built", "encoded", "write", "read", "returned"} /\ lum # NoLum

\* the encoder has returned for the aggregate in hand
Encoded == pc = "encoded"

\* the byte of the encoder's output at a logical offset: block off / 64,
\* payload position off % 64; -1 where the output has no such byte
Logical(off) ==
    IF off \div 64 \in DOMAIN blocks THEN blocks[off \div 64][(off % 64) + 1] ELSE -1

\* the output holds these bytes from the logical offset on
Holds(off, bytes) == \A i \in 1..Len(bytes) : Logical(off + i - 1) = bytes[i]

\* the 16-byte layout of a preset record, as the specification tabulates it
Record16(p) ==
    << ModeCode(p.mode), p.color.red, p.color.green, p.color.blue, 0, 0, 0, 0,
       IF p.full_color THEN 1 ELSE 0, p.brightness, p.speed,
       DirectionCode(p.direction), 0, 0, 170, 85 >>

\* the colour key_colors holds for key k, black if it holds none
ColourOf(k) ==
    IF k \in DOMAIN lum.key_colors
    THEN <<lum.key_colors[k].red, lum.key_colors[k].green, lum.key_colors[k].blue>>
    ELSE <<0, 0, 0>>

\* the colour bytes a slot shows for raw key-code n
ColourOfCode(n) ==
    IF \E k \in Key : KeyCode(k) = n
    THEN ColourOf(CHOOSE k \in Key : KeyCode(k) = n)
    ELSE <<0, 0, 0>>

----------------------------------------------------------------------------
(* C1 *)

\* C1: in every aggregate a constructor produced, if active_mode.mode is one of
\* the 20 modes mode_presets holds, the entry of that mode equals active_mode.
C1_PresetEqualsActive ==
    HasLum =>
        (lum.active_mode.mode \in DOMAIN lum.mode_presets
            => lum.mode_presets[lum.active_mode.mode] = lum.active_mode)

----------------------------------------------------------------------------
(* C2 *)

\* the calls of a transmission in which nothing fails: block i is written, and
\* read back right after if i is one of 0, 1, 3, 4, 23, 25
RECURSIVE Handshake(_)
Handshake(i) ==
    IF i > 25 THEN <<>>
    ELSE <<[op |-> "send_feature_report", block |-> i, ok |-> TRUE]>>
         \o (IF i \in {0, 1, 3, 4, 23, 25}
             THEN <<[op |-> "get_feature_report", block |-> i, ok |-> TRUE]>>
             ELSE <<>>)
         \o Handshake(i + 1)

NoCallFailed == \A n \in 1..Len(device_log) : device_log[n].ok

\* C2: while no transport call fails the calls made are a prefix of: blocks
\* 0..25 written once each in ascending order, one read-back right after each of
\* blocks 0, 1, 3, 4, 23, 25 and none elsewhere; the transmission returns Ok after
\* exactly 26 writes and 6 read-backs.
C2_Handshake ==
    (pc \in {"write", "read", "returned"} /\ NoCallFailed) =>
        /\ Len(device_log) <= Len(Handshake(0))
        /\ device_log = SubSeq(Handshake(0), 1, Len(device_log))
        /\ (result = "Ok" =>
              /\ device_log = Handshake(0)
              /\ Cardinality({ n \in 1..Len(device_log) :
                                  device_log[n].op = "send_feature_report" }) = 26
              /\ Cardinality({ n \in 1..Len(device_log) :
                                  device_log[n].op = "get_feature_report" }) = 6)

C2_Witness == pc = "returned" /\ result = "Ok" /\ Len(device_log) = 32

----------------------------------------------------------------------------
(* C3 *)

\* C3: a failed write or read-back is the last call made, and the caller gets it
\* back as an error result.
C3_FailureSurfaced ==
    \A n \in 1..Len(device_log) :
        ~device_log[n].ok =>
            /\ n = Len(device_log)
            /\ pc = "returned"
            /\ result = "Err"

----------------------------------------------------------------------------
(* C4 *)

\* C4 as claimed: for every n in 0..575 the slot at 0x340 + 4*n holds 0x80 and
\* the colour of the key whose code is n (zero if there is none).
C4_SlotOfCodeN ==
    Encoded =>
        \A n \in 0..575 : Holds(832 + 4 * n, <<128>> \o ColourOfCode(n))

\* C4 as amended: for every n in 0..143 the slot at 0x340 + 4*n holds 0x80 and
\* the colour of the key whose code is 4*n (zero if there is none); the slots
\* end at 0x57F.
C4_SlotOfCode4N ==
    Encoded =>
        \A n \in 0..143 : Holds(832 + 4 * n, <<128>> \o ColourOfCode(4 * n))

C4_Witness ==
    /\ Encoded
    /\ "Q" \in DOMAIN lum.key_colors
    /\ ColourOf("Q") # <<0, 0, 0>>
    /\ Holds(832 + 152, <<128>> \o ColourOf("Q"))

----------------------------------------------------------------------------
(* C5 *)

\* C5: after set_user_defined(brightness, hmap) with brightness in 1..16, the
\* output holds 0x80 and hmap's colour of k at 0x340 + code(k) for every key k of
\* hmap, and 0x80, 0, 0, 0 at every other 4-byte slot of 0x340-0x57F.
C5_UserDefinedSlots ==
    (Encoded /\ call.fn = "set_user_defined") =>
        /\ \A k \in DOMAIN call.hmap :
              Holds(832 + KeyCode(k),
                    <<128, call.hmap[k].red, call.hmap[k].green, call.hmap[k].blue>>)
        /\ \A n \in 0..143 :
              (~ \E k \in DOMAIN call.hmap : KeyCode(k) = 4 * n)
                  => Holds(832 + 4 * n, <<128, 0, 0, 0>>)

C5_Witness ==
    /\ Encoded
    /\ call.fn = "set_user_defined"
    /\ DOMAIN call.hmap = Key
    /\ Cardinality({ <<Logical(832 + KeyCode(k) + 1), Logical(832 + KeyCode(k) + 2),
                       Logical(832 + KeyCode(k) + 3)>> : k \in Key }) = 61

----------------------------------------------------------------------------
(* C6 *)

\* C6: for every mode code m in 1..0x12 the 16 bytes at 0x140 + (m-1)*0x10 are
\* the record of the mode_presets entry of the mode with code m, and the 16
\* bytes at 0x270 are the record of the entry of UserDefined.
C6_PresetRegion ==
    Encoded =>
        /\ \A m \in 1..18 :
              \A mode \in Mode :
                  ModeCode(mode) = m =>
                      Holds(320 + (m - 1) * 16, Record16(lum.mode_presets[mode]))
        /\ Holds(624, Record16(lum.mode_presets["UserDefined"]))

C6_Witness ==
    /\ Encoded
    /\ call.fn = "set_active_mode"
    /\ call.mode = "Tilt"
    /\ lum.mode_presets["Tilt"] # default_for("Tilt")
    /\ Holds(320 + 17 * 16, Record16(lum.mode_presets["Tilt"]))

----------------------------------------------------------------------------
(* C7 *)

RollingCall ==
    /\ call.fn = "set_active_mode"
    /\ call.mode = "Rolling"
    /\ call.color = rgb(0, 0, 0)
    /\ call.full_color = TRUE
    /\ call.brightness = 2
    /\ call.speed = 6
    /\ call.direction = "Left"

RollingRecord == <<11, 0, 0, 0, 0, 0, 0, 0, 1, 2, 6, 1, 0, 0, 170, 85>>

\* C7 as claimed: the Rolling record of that call is at block 5, payload offset
\* 0, i.e. blocks[5][1..17].
C7_RollingAtBlock5 ==
    (Encoded /\ RollingCall) =>
        \A i \in 1..16 : blocks[5][i] = RollingRecord[i]

\* C7 as amended: the Rolling record of that call is at logical offset
\* 0x140 + (0x0b-1)*0x10 = 0x1E0, which is block 7, payload offset 32, i.e.
\* blocks[7][33..49].
C7_RollingAtBlock7 ==
    (Encoded /\ RollingCall) =>
        /\ 320 + (11 - 1) * 16 = 7 * 64 + 32
        /\ \A i \in 1..16 : blocks[7][32 + i] = RollingRecord[i]
        /\ Holds(320 + (11 - 1) * 16, RollingRecord)

C7_Witness == Encoded /\ RollingCall /\ blocks[7][33] = 11 /\ blocks[5][1] = 1

----------------------------------------------------------------------------
(* C8 *)

\* C8: the 16 bytes at 0x580 are the record of active_mode; after
\* set_backlight_off() they are 0,0,0,0,0,0,0,0,0,1,1,0,0,0,0xAA,0x55, after
\* set_user_defined(b, ..) they are 0x80,0xff,0xff,0xff,0,0,0,0,0,b,1,0,0,0,0xAA,0x55.
C8_ActiveRecord ==
    Encoded =>
        /\ Holds(1408, Record16(lum.active_mode))
        /\ (call.fn = "set_backlight_off" =>
              Holds(1408, <<0, 0, 0, 0, 0, 0, 0, 0, 0, 1, 1, 0, 0, 0, 170, 85>>))
        /\ (call.fn = "set_user_defined" =>
              Holds(1408, <<128, 255, 255, 255, 0, 0, 0, 0,
                            0, call.brightness, 1, 0, 0, 0, 170, 85>>))
        /\ (call.fn = "set_active_mode" =>
              Holds(1408, Record16([mode |-> call.mode, color |-> call.color,
                                    full_color |-> call.full_color,
                                    brightness |-> call.brightness,
                                    speed |-> call.speed,
                                    direction |-> call.direction])))

C8_Witness ==
    /\ Encoded
    /\ call.fn = "set_user_defined"
    /\ call.brightness = 2
    /\ Logical(1408) = 128
    /\ Logical(1408 + 9) = 2

----------------------------------------------------------------------------
(* C9 *)

InRange(v) == v >= 1 /\ v <= 16

\* the brightness and speed the last call handed to mode_preset
CallBrightness ==
    IF call.fn \in {"set_active_mode", "set_user_defined"} THEN call.brightness ELSE 1
CallSpeed == IF call.fn = "set_active_mode" THEN call.speed ELSE 1

\* C9: a call with brightness or speed outside 1..16 panics and leaves no
\* aggregate; every aggregate has brightness and speed in 1..16 in all 20
\* entries of mode_presets and in active_mode; bytes 9 and 10 of the 20 records
\* of the output (18 presets, UserDefined, active) are in 1..16.
C9_RangeEnforced ==
    /\ (call.fn # "none" /\ ~(InRange(CallBrightness) /\ InRange(CallSpeed)))
          => (pc = "panicked" /\ lum = NoLum)
    /\ HasLum =>
          /\ Cardinality(DOMAIN lum.mode_presets) = 20
          /\ \A m \in DOMAIN lum.mode_presets :
                InRange(lum.mode_presets[m].brightness)
                    /\ InRange(lum.mode_presets[m].speed)
          /\ InRange(lum.active_mode.brightness)
          /\ InRange(lum.active_mode.speed)
    /\ Encoded =>
          \A r \in { 320 + 16 * i : i \in 0..17 } \cup {624, 1408} :
              InRange(Logical(r + 9)) /\ InRange(Logical(r + 10))

C9_Witness ==
    /\ pc = "panicked"
    /\ call.fn = "set_user_defined"
    /\ call.brightness = 17
    /\ lum = NoLum

----------------------------------------------------------------------------
(* C10 *)

\* the logical offsets whose content depends on the aggregate or on chance
Variable(off) ==
    \/ off >= 128 /\ off <= 191
    \/ off >= 320 /\ off <= 639
    \/ off >= 832 /\ off <= 1407
    \/ off >= 1408 /\ off <= 1423

\* the fixed markers, by logical offset
Markers ==
    << <<0, <<4, 24>>>>, <<64, <<4, 171>>>>, <<192, <<4, 2>>>>,
       <<256, <<4, 19, 0, 0, 0, 0, 0, 0, 18>>>>, <<1472, <<4, 2>>>>,
       <<1536, <<4, 240>>>>, <<1600, <<4, 24>>>> >>

InMarker(off) ==
    \E n \in 1..Len(Markers) :
        off >= Markers[n][1] /\ off < Markers[n][1] + Len(Markers[n][2])

\* C10: the output is 26 blocks of 65 bytes, byte 0 of every block is 0, payload
\* byte j of block b is logical byte 64*b + j, the seven markers sit at their
\* offsets, and every byte outside the markers, the filler, the preset records,
\* the key slots and the active record is zero.
C10_FixedFrame ==
    Encoded =>
        /\ DOMAIN blocks = 0..25
        /\ \A b \in 0..25 :
              /\ DOMAIN blocks[b] = 0..64
              /\ blocks[b][0] = 0
              /\ \A j \in 0..63 : blocks[b][j + 1] = At(data, 64 * b + j)
        /\ Len(data) = 1664
        /\ \A n \in 1..Len(Markers) : Holds(Markers[n][1], Markers[n][2])
        /\ \A off \in 0..1663 :
              (~Variable(off) /\ ~InMarker(off)) => Logical(off) = 0

C10_Witness ==
    /\ Encoded
    /\ call.fn = "set_user_defined"
    /\ Logical(128) # 0
    /\ Logical(1536) = 4
    /\ Logical(1537) = 240

----------------------------------------------------------------------------
(* C11 *)

\* a call set_active_mode(p) with p a valid preset of mode Shuttle
ShuttleCall == call.fn = "set_active_mode" /\ call.mode = "Shuttle"

\* the preset that call was given
CallPreset ==
    [mode |-> call.mode, color |-> call.color, full_color |-> call.full_color,
     brightness |-> call.brightness, speed |-> call.speed,
     direction |-> call.direction]

\* the flat buffer of an aggregate whose presets are all defaults
DefaultData == BuildData(set_backlight_off, CHOOSE fill \in Fillers : TRUE)

\* C11: after set_active_mode(p) with p a valid preset of mode Shuttle (code
\* 0x13), mode_presets holds p as its Shuttle entry, yet bytes 0x140-0x27F of the
\* output are those of an aggregate whose presets are all defaults (no record
\* there carries code 0x13, and 0x260-0x26F stay zero); p is encoded in the
\* active record at 0x580-0x58F and nowhere else: outside that record and the
\* filler the output is that of the all-defaults aggregate.
C11_ShuttleNotInPresetRegion ==
    (Encoded /\ ShuttleCall) =>
        /\ lum.mode_presets["Shuttle"] = CallPreset
        /\ \A off \in 320..639 : Logical(off) = At(DefaultData, off)
        /\ \A m \in 1..18 :
              \A mode \in Mode :
                  ModeCode(mode) = m =>
                      Holds(320 + (m - 1) * 16, Record16(default_for(mode)))
        /\ \A off \in 608..623 : Logical(off) = 0
        /\ Holds(624, Record16(default_for("UserDefined")))
        /\ \A i \in 0..19 : Logical(320 + 16 * i) # 19
        /\ Holds(1408, Record16(CallPreset))
        /\ \A off \in 0..1663 :
              (~(off >= 128 /\ off <= 191) /\ ~(off >= 1408 /\ off <= 1423))
                  => Logical(off) = At(DefaultData, off)

C11_Witness ==
    /\ Encoded
    /\ ShuttleCall
    /\ CallPreset # default_for("Shuttle")
    /\ lum.mode_presets["Shuttle"] = CallPreset
    /\ call.brightness = 2
    /\ Logical(1408) = 19
    /\ Logical(1408 + 9) = 2

====
